---- MODULE Spec2Model ----
(***************************************************************************)
(* World Bank data MCP server (src/server.py).                             *)
(*                                                                         *)
(* Two groups of handlers are modelled:                                    *)
(*   - the resources get_countries and get_country_indicators, which read  *)
(*     the CSV data file on every call (SpecResources);                    *)
(*   - the tools get_country_info, get_live_indicator and                  *)
(*     compare_countries, which call external HTTP APIs (SpecTools).       *)
(*                                                                         *)
(* Python / JSON values are tagged records so that values of different     *)
(* Python types can be told apart:                                         *)
(*   None -> [t |-> "null"]          int  -> [t |-> "num",  v |-> n]       *)
(*   str  -> [t |-> "str", v |-> sequence of one-character strings]        *)
(*   list -> [t |-> "list", v |-> sequence of values]                      *)
(*   dict -> [t |-> "obj", v |-> sequence of [k |-> key, v |-> value]]     *)
(*           (insertion order kept, as in Python)                          *)
(* The outcome of a Python call is either a returned value                 *)
(* [raised |-> FALSE, val |-> v] or a raised exception                     *)
(* [raised |-> TRUE, exc |-> class name, msg |-> str(e)].                  *)
(***************************************************************************)
EXTENDS Integers, Sequences, FiniteSets, TLC

VARIABLES
    datafile,   \* the CSV file DATA_FILE: [exists, rows]
    pc,         \* "idle", "send" or "recv" (inside the compare_countries loop)
    call,       \* the handler invocation in progress or last completed
    ret,        \* outcome of the last completed invocation
    requests,   \* HTTP GETs issued during the invocation, in order
    responses,  \* upstream answers received during the invocation, in order
    results,    \* compare_countries: the local list `results`
    idx         \* compare_countries: 1-based position of the loop

vars == <<datafile, pc, call, ret, requests, responses, results, idx>>

----------------------------------------------------------------------------
(* Bounds *)

MaxRows == 3    \* rows in the CSV file
MaxCodes == 3   \* length of the country_codes list of compare_countries

----------------------------------------------------------------------------
(* Python values and outcomes *)

Null == [t |-> "null"]
Num(n) == [t |-> "num", v |-> n]
Str(chars) == [t |-> "str", v |-> chars]
List(elems) == [t |-> "list", v |-> elems]
Obj(pairs) == [t |-> "obj", v |-> pairs]
KV(key, value) == [k |-> key, v |-> value]

Ret(v) == [raised |-> FALSE, val |-> v]
Raise(cls, message) == [raised |-> TRUE, exc |-> cls, msg |-> message]

\* type(v).__name__
PyType(v) ==
    CASE v.t = "null" -> "NoneType"
      [] v.t = "num" -> "int"
      [] v.t = "str" -> "str"
      [] v.t = "list" -> "list"
      [] v.t = "obj" -> "dict"

\* bool(v): None, 0 and empty containers are falsy
Truthy(v) ==
    CASE v.t = "null" -> FALSE
      [] v.t = "num" -> v.v # 0
      [] OTHER -> Len(v.v) > 0

\* len(v)
PyLen(v) ==
    IF v.t \in {"str", "list", "obj"}
    THEN Ret(Len(v.v))
    ELSE Raise("TypeError", "object of type '" \o PyType(v) \o "' has no len()")

\* v[n] for an int n >= 0
Subscript(v, n) ==
    CASE v.t = "list" ->
           IF n < Len(v.v) THEN Ret(v.v[n + 1])
           ELSE Raise("IndexError", "list index out of range")
      [] v.t = "str" ->
           IF n < Len(v.v) THEN Ret(Str(<<v.v[n + 1]>>))
           ELSE Raise("IndexError", "string index out of range")
      [] v.t = "obj" -> Raise("KeyError", ToString(n))
      [] OTHER ->
           Raise("TypeError", "'" \o PyType(v) \o "' object is not subscriptable")

\* v.get(key, default)
DictGet(v, key, default) ==
    IF v.t = "obj"
    THEN IF \E i \in 1..Len(v.v) : v.v[i].k = key
         THEN Ret(v.v[CHOOSE i \in 1..Len(v.v) : v.v[i].k = key].v)
         ELSE Ret(default)
    ELSE Raise("AttributeError",
               "'" \o PyType(v) \o "' object has no attribute 'get'")

\* list(v.values())
DictValues(v) ==
    IF v.t = "obj"
    THEN Ret([i \in 1..Len(v.v) |-> v.v[i].v])
    ELSE Raise("AttributeError",
               "'" \o PyType(v) \o "' object has no attribute 'values'")

\* list(v.keys())
DictKeys(v) ==
    IF v.t = "obj"
    THEN Ret([i \in 1..Len(v.v) |-> v.v[i].k])
    ELSE Raise("AttributeError",
               "'" \o PyType(v) \o "' object has no attribute 'keys'")

----------------------------------------------------------------------------
(* Upstream HTTP answers.                                                   *)
(*   [kind |-> "transport", msg]  client.get raised (timeout, DNS, ...)     *)
(*   [kind |-> "http", status, body]  a response; body is a JSON value or   *)
(*                                    NotJson (response.json() raises)      *)

NotJson == [t |-> "invalid"]

Transport(message) == [kind |-> "transport", msg |-> message]
Http(status, body) == [kind |-> "http", status |-> status, body |-> body]

\* response.raise_for_status() followed by response.json()
ResponseJson(resp) ==
    IF resp.kind = "transport" THEN Raise("ConnectError", resp.msg)
    ELSE IF resp.status < 200 \/ resp.status > 299
         THEN Raise("HTTPStatusError", "status " \o ToString(resp.status))
    ELSE IF resp.body = NotJson
         THEN Raise("JSONDecodeError", "Expecting value: line 1 column 1 (char 0)")
    ELSE Ret(resp.body)

----------------------------------------------------------------------------
(* Indicator Client *)

\* the GET issued by _fetch_world_bank_indicator
WorldBankRequest(country_code, indicator, year) ==
    [url |-> "https://api.worldbank.org/v2/country/" \o country_code
               \o "/indicator/" \o indicator,
     params |-> IF Truthy(year)
                THEN [format |-> "json", per_page |-> 100,
                      date |-> ToString(year.v)]
                ELSE [format |-> "json", per_page |-> 100]]

_fetch_world_bank_indicator(country_code, indicator, year, resp) ==
    LET data == ResponseJson(resp) IN
    IF data.raised THEN data
    ELSE LET n == PyLen(data.val) IN
    IF n.raised THEN n
    ELSE IF n.val < 2 THEN Ret(List(<<>>))
    ELSE LET second == Subscript(data.val, 1) IN
    IF second.raised THEN second
    ELSE IF ~Truthy(second.val) THEN Ret(List(<<>>))
    ELSE second

\* get_live_indicator with the HTTPStatusError handler left out: every
\* exception of the upstream call is reported by its own message
get_live_indicator_generic(country_code, indicator, year, resp) ==
    LET data == _fetch_world_bank_indicator(country_code, indicator, year, resp) IN
    IF data.raised
    THEN Ret([error |-> data.msg])
    ELSE IF ~Truthy(data.val)
    THEN Ret([country |-> country_code, indicator |-> indicator,
              year |-> year, value |-> Null, error |-> "No data available"])
    ELSE LET entry == Subscript(data.val, 0) IN
    IF entry.raised THEN entry
    ELSE LET country == DictGet(entry.val, "country", Obj(<<>>)) IN
    IF country.raised THEN country
    ELSE LET country_name == DictGet(country.val, "value", Null) IN
    IF country_name.raised THEN country_name
    ELSE LET ind == DictGet(entry.val, "indicator", Obj(<<>>)) IN
    IF ind.raised THEN ind
    ELSE LET indicator_name == DictGet(ind.val, "value", Null) IN
    IF indicator_name.raised THEN indicator_name
    ELSE Ret([country |-> country_code,
              country_name |-> country_name.val,
              indicator |-> indicator,
              indicator_name |-> indicator_name.val,
              year |-> year,
              value |-> DictGet(entry.val, "value", Null).val])

get_live_indicator(country_code, indicator, year, resp) ==
    LET data == _fetch_world_bank_indicator(country_code, indicator, year, resp) IN
    IF data.raised
    THEN IF data.exc = "HTTPStatusError"
         THEN Ret([error |-> "Invalid request for " \o country_code
                               \o " / " \o indicator])
         ELSE Ret([error |-> data.msg])
    ELSE IF ~Truthy(data.val)
    THEN Ret([country |-> country_code, indicator |-> indicator,
              year |-> year, value |-> Null, error |-> "No data available"])
    ELSE LET entry == Subscript(data.val, 0) IN
    IF entry.raised THEN entry
    ELSE LET country == DictGet(entry.val, "country", Obj(<<>>)) IN
    IF country.raised THEN country
    ELSE LET country_name == DictGet(country.val, "value", Null) IN
    IF country_name.raised THEN country_name
    ELSE LET ind == DictGet(entry.val, "indicator", Obj(<<>>)) IN
    IF ind.raised THEN ind
    ELSE LET indicator_name == DictGet(ind.val, "value", Null) IN
    IF indicator_name.raised THEN indicator_name
    ELSE Ret([country |-> country_code,
              country_name |-> country_name.val,
              indicator |-> indicator,
              indicator_name |-> indicator_name.val,
              year |-> year,
              value |-> DictGet(entry.val, "value", Null).val])

----------------------------------------------------------------------------
(* Country Info Client *)

\* the GET issued by _fetch_rest_countries
RestCountriesRequest(country_code) ==
    [url |-> "https://restcountries.com/v3.1/alpha/" \o country_code]

_fetch_rest_countries(country_code, resp) ==
    LET body == ResponseJson(resp) IN
    IF body.raised THEN body
    ELSE Subscript(body.val, 0)

get_country_info(country_code, resp) ==
    LET data == _fetch_rest_countries(country_code, resp) IN
    IF data.raised
    THEN IF data.exc = "HTTPStatusError"
         THEN Ret([error |-> "Country not found: " \o country_code])
         ELSE Ret([error |-> data.msg])
    ELSE LET name == DictGet(data.val, "name", Obj(<<>>)) IN
    IF name.raised THEN name
    ELSE LET common == DictGet(name.val, "common", Null) IN
    IF common.raised THEN common
    ELSE LET capitals == DictGet(data.val, "capital", List(<<Null>>)).val
             capital == Subscript(capitals, 0) IN
    IF capital.raised THEN capital
    ELSE LET languages ==
                 DictValues(DictGet(data.val, "languages", Obj(<<>>)).val) IN
    IF languages.raised THEN languages
    ELSE LET currencies ==
                 DictKeys(DictGet(data.val, "currencies", Obj(<<>>)).val) IN
    IF currencies.raised THEN currencies
    ELSE Ret([name |-> common.val,
              capital |-> capital.val,
              region |-> DictGet(data.val, "region", Null).val,
              subregion |-> DictGet(data.val, "subregion", Null).val,
              languages |-> languages.val,
              currencies |-> currencies.val,
              population |-> DictGet(data.val, "population", Null).val,
              flag |-> DictGet(data.val, "flag", Null).val])

----------------------------------------------------------------------------
(* Comparison Aggregator: one pass of the body of the for loop, given the   *)
(* answer the upstream gave to this pass's GET                              *)

\* the loop body with results.insert(0, ...) in place of results.append(...)
compare_iteration_prepend(res, code, indicator, year, resp) ==
    LET result == get_live_indicator(code, indicator, year, resp) IN
    IF ~result.raised
    THEN <<result.val>> \o res
    ELSE <<[country |-> code, indicator |-> indicator,
            year |-> year, value |-> Null, error |-> result.msg]>> \o res

\* the loop body with an except branch that records nothing
compare_iteration_skip(res, code, indicator, year, resp) ==
    LET result == get_live_indicator(code, indicator, year, resp) IN
    IF ~result.raised
    THEN Append(res, result.val)
    ELSE res

compare_iteration(res, code, indicator, year, resp) ==
    LET result == get_live_indicator(code, indicator, year, resp) IN
    IF ~result.raised
    THEN Append(res, result.val)
    ELSE Append(res, [country |-> code, indicator |-> indicator,
                      year |-> year, value |-> Null, error |-> result.msg])

\* a loop that breaks after the first pass that recorded an error
next_position_break(i, country_codes, res) ==
    IF "error" \in DOMAIN res[Len(res)]
    THEN Len(country_codes) + 1
    ELSE i + 1

\* the for statement: the position the loop moves to after a pass
next_position(i, country_codes, res) == i + 1

----------------------------------------------------------------------------
(* Dataset Loader and resource handlers *)

\* rows of the CSV file
Row(code, name, indicator, date, value) ==
    [countryiso3code |-> code, country |-> name, indicator |-> indicator,
     date |-> date, value |-> value]

Rows ==
    {Row("USA", "United States", "NY.GDP.MKTP.CD", 2022, 25),
     Row("USA", "United States", "SP.POP.TOTL", 2022, 333),
     Row("USA", "America", "SP.POP.TOTL", 2021, 331),
     Row("usa", "United States", "SP.POP.TOTL", 2022, 333),
     Row("BRA", "Brazil", "SP.POP.TOTL", 2022, 215)}

Datasets == UNION {[1..n -> Rows] : n \in 0..MaxRows}

DataFiles ==
    {[exists |-> TRUE, rows |-> d] : d \in Datasets}
        \cup {[exists |-> FALSE, rows |-> <<>>]}

\* country codes asked for
LookupCodes == {"USA", "usa", "BRA", "ZZZ"}

\* ascending order of the strings that occur as country codes
CodeOrder == <<"BRA", "USA", "ZZZ", "usa">>
CodeRank(code) == CHOOSE i \in 1..Len(CodeOrder) : CodeOrder[i] = code

\* json.dumps(obj) and DataFrame.write_json(): the JSON document produced,
\* an object or an array of row objects keyed by column name
json_dumps(obj) == [t |-> "obj", v |-> obj]
write_json(frame) == [t |-> "list", v |-> frame]

_load_data(file) ==
    IF ~file.exists
    THEN Raise("FileNotFoundError", "Data file not found: world_bank_indicators.csv")
    ELSE Ret(file.rows)

\* df.select(["countryiso3code", "country"])
SelectCountryColumns(df) ==
    [i \in 1..Len(df) |->
        [countryiso3code |-> df[i].countryiso3code, country |-> df[i].country]]

\* df.unique(): the distinct rows, in an order the library does not fix
Unique(df) ==
    LET distinct == {df[i] : i \in 1..Len(df)}
        n == Cardinality(distinct)
    IN {s \in [1..n -> distinct] : \A i, j \in 1..n : s[i] = s[j] => i = j}

\* df.sort("countryiso3code"): ascending, rows with equal codes keep their order
RECURSIVE SortByCode(_)
SortByCode(df) ==
    IF df = <<>> THEN <<>>
    ELSE LET front == SortByCode(SubSeq(df, 1, Len(df) - 1))
             row == df[Len(df)]
             k == Cardinality({i \in 1..Len(front) :
                     CodeRank(front[i].countryiso3code)
                         <= CodeRank(row.countryiso3code)})
         IN SubSeq(front, 1, k) \o <<row>> \o SubSeq(front, k + 1, Len(front))

\* get_countries without .unique()
get_countries_nounique(file) ==
    LET df == _load_data(file) IN
    IF df.raised THEN {df}
    ELSE LET countries == SortByCode(SelectCountryColumns(df.val)) IN
         {IF Len(countries) = 0
          THEN Ret(json_dumps([error |-> "No countries found"]))
          ELSE Ret(write_json(countries))}

\* the outcomes get_countries can produce for a data file
get_countries(file) ==
    LET df == _load_data(file) IN
    IF df.raised THEN {df}
    ELSE {IF Len(countries) = 0
          THEN Ret(json_dumps([error |-> "No countries found"]))
          ELSE Ret(write_json(countries)) :
            countries \in {SortByCode(u) :
                             u \in Unique(SelectCountryColumns(df.val))}}

\* upper-casing of the strings that occur as country codes
UpperCode(code) == IF code = "usa" THEN "USA" ELSE code

\* get_country_indicators comparing codes without regard to letter case
get_country_indicators_nocase(file, country_code) ==
    LET df == _load_data(file) IN
    IF df.raised THEN df
    ELSE LET filtered ==
                 SelectSeq(df.val, LAMBDA r : UpperCode(r.countryiso3code)
                                                = UpperCode(country_code)) IN
    IF Len(filtered) = 0
    THEN Ret(json_dumps([error |-> "Country not found: " \o country_code]))
    ELSE Ret(write_json(filtered))

\* get_country_indicators without the height check
get_country_indicators_nocheck(file, country_code) ==
    LET df == _load_data(file) IN
    IF df.raised THEN df
    ELSE Ret(write_json(SelectSeq(df.val,
                                  LAMBDA r : r.countryiso3code = country_code)))

get_country_indicators(file, country_code) ==
    LET df == _load_data(file) IN
    IF df.raised THEN df
    ELSE LET filtered ==
                 SelectSeq(df.val, LAMBDA r : r.countryiso3code = country_code) IN
    IF Len(filtered) = 0
    THEN Ret(json_dumps([error |-> "Country not found: " \o country_code]))
    ELSE Ret(write_json(filtered))

----------------------------------------------------------------------------
(* Inputs of the tools *)

Codes == {"USA", "ZZZ"}
Indicators == {"SP.POP.TOTL"}
Years == {Num(0), Num(2020), Num(2022)}

CodeLists == UNION {[1..n -> Codes] : n \in 0..MaxCodes}

\* Bodies of the indicator API: [metadata, dataArray] and departures from it
Meta == Obj(<<KV("page", Num(1))>>)
EntryUSA ==
    Obj(<<KV("indicator", Obj(<<KV("id", Str(<<"P">>)), KV("value", Str(<<"P","o","p">>))>>)),
          KV("country", Obj(<<KV("id", Str(<<"U">>)), KV("value", Str(<<"U","S">>))>>)),
          KV("date", Str(<<"2","0","2","2">>)),
          KV("value", Num(333))>>)
EntryOlder ==
    Obj(<<KV("indicator", Obj(<<KV("value", Str(<<"P","o","p">>))>>)),
          KV("country", Obj(<<KV("value", Str(<<"U","S">>))>>)),
          KV("value", Num(331))>>)
EntryNullValue ==
    Obj(<<KV("indicator", Obj(<<KV("value", Str(<<"P","o","p">>))>>)),
          KV("country", Obj(<<KV("value", Str(<<"U","S">>))>>)),
          KV("value", Null)>>)
EntryNullCountry ==
    Obj(<<KV("indicator", Obj(<<KV("value", Str(<<"P","o","p">>))>>)),
          KV("country", Null),
          KV("value", Num(333))>>)
ErrorMessage == Obj(<<KV("message", List(<<Obj(<<KV("id", Str(<<"1","2","0">>))>>)>>))>>)

BodyData == List(<<Meta, List(<<EntryUSA, EntryOlder>>)>>)
BodyEmptyArray == List(<<Meta, List(<<>>)>>)
BodyNullArray == List(<<Meta, Null>>)
BodyNoArray == List(<<ErrorMessage>>)
BodyNumbers == List(<<Meta, List(<<Num(1), Num(2)>>)>>)

WorldBankBodies ==
    {BodyData,
     List(<<Meta, List(<<EntryNullValue>>)>>),
     List(<<Meta, List(<<Obj(<<>>)>>)>>),
     BodyEmptyArray,
     BodyNullArray,
     BodyNoArray,
     List(<<>>),
     BodyNumbers,
     List(<<Meta, List(<<EntryNullCountry>>)>>),
     List(<<Meta, Str(<<"x">>)>>),
     List(<<Meta, ErrorMessage>>),
     List(<<Meta, Num(7)>>),
     Obj(<<KV("a", Num(1)), KV("b", Num(2))>>),
     ErrorMessage,
     Null,
     NotJson}

Failures ==
    {Http(404, ErrorMessage), Http(500, NotJson), Http(302, Null),
     Transport("timed out"), Transport("Name or service not known")}

WorldBankResponses == {Http(200, b) : b \in WorldBankBodies} \cup Failures

\* answers given inside a compare_countries loop: one per kind of outcome
LoopResponses ==
    {Http(200, BodyData), Http(200, BodyNoArray), Http(200, BodyNumbers),
     Http(404, ErrorMessage), Transport("timed out")}

\* Bodies of the country-metadata API: a list of candidate matches
CountryFull ==
    Obj(<<KV("name", Obj(<<KV("common", Str(<<"U","S">>)), KV("official", Str(<<"U","S","A">>))>>)),
          KV("capital", List(<<Str(<<"D","C">>), Str(<<"N","Y">>)>>)),
          KV("region", Str(<<"A","m">>)),
          KV("subregion", Str(<<"N","A">>)),
          KV("languages", Obj(<<KV("eng", Str(<<"E","n">>)), KV("spa", Str(<<"E","s">>))>>)),
          KV("currencies", Obj(<<KV("USD", Obj(<<>>)), KV("USN", Obj(<<>>))>>)),
          KV("population", Num(333)),
          KV("flag", Str(<<"f">>))>>)
CountryNoCapital ==
    Obj(<<KV("name", Obj(<<KV("common", Str(<<"U","S">>))>>)),
          KV("region", Str(<<"A","m">>)),
          KV("population", Num(333))>>)
CountryEmptyCapital ==
    Obj(<<KV("name", Obj(<<KV("common", Str(<<"A","Q">>))>>)),
          KV("capital", List(<<>>)),
          KV("population", Num(0))>>)

RestBodies ==
    {List(<<CountryFull>>),
     List(<<CountryNoCapital, CountryFull>>),
     List(<<CountryEmptyCapital>>),
     List(<<Obj(<<>>)>>),
     List(<<Obj(<<KV("name", Null)>>)>>),
     List(<<Obj(<<KV("capital", Null)>>)>>),
     List(<<Obj(<<KV("capital", Str(<<"D","C">>))>>)>>),
     List(<<Obj(<<KV("languages", Null)>>)>>),
     List(<<Obj(<<KV("currencies", List(<<>>))>>)>>),
     List(<<Num(1)>>),
     List(<<>>),
     ErrorMessage,
     Null,
     NotJson}

RestResponses == {Http(200, b) : b \in RestBodies} \cup Failures

----------------------------------------------------------------------------
(* State machine *)

NoCall == [op |-> "none"]
NoReturn == [pending |-> TRUE]

\* get_country_info(country_code)
GetCountryInfo ==
    /\ pc = "idle"
    /\ \E country_code \in Codes, resp \in RestResponses :
         /\ call' = [op |-> "get_country_info", country_code |-> country_code]
         /\ requests' = <<RestCountriesRequest(country_code)>>
         /\ responses' = <<resp>>
         /\ ret' = get_country_info(country_code, resp)
    /\ results' = <<>>
    /\ idx' = 0
    /\ UNCHANGED <<datafile, pc>>

\* get_live_indicator(country_code, indicator, year)
GetLiveIndicator ==
    /\ pc = "idle"
    /\ \E country_code \in Codes, indicator \in Indicators, year \in Years,
          resp \in WorldBankResponses :
         /\ call' = [op |-> "get_live_indicator", country_code |-> country_code,
                     indicator |-> indicator, year |-> year]
         /\ requests' = <<WorldBankRequest(country_code, indicator, year)>>
         /\ responses' = <<resp>>
         /\ ret' = get_live_indicator(country_code, indicator, year, resp)
    /\ results' = <<>>
    /\ idx' = 0
    /\ UNCHANGED <<datafile, pc>>

\* compare_countries(country_codes, indicator, year): entry, results = []
CompareCountries ==
    /\ pc = "idle"
    /\ \E country_codes \in CodeLists, indicator \in Indicators, year \in Years :
         call' = [op |-> "compare_countries", country_codes |-> country_codes,
                  indicator |-> indicator, year |-> year]
    /\ requests' = <<>>
    /\ responses' = <<>>
    /\ ret' = NoReturn
    /\ results' = <<>>
    /\ idx' = 1
    /\ pc' = "send"
    /\ UNCHANGED datafile

\* one pass of the loop, first half: the blocking GET is issued
LoopSend ==
    /\ pc = "send"
    /\ idx <= Len(call.country_codes)
    /\ requests' = Append(requests,
                          WorldBankRequest(call.country_codes[idx],
                                           call.indicator, call.year))
    /\ pc' = "recv"
    /\ UNCHANGED <<datafile, call, ret, responses, results, idx>>

\* one pass of the loop, second half: the GET completes and the pass ends
LoopReceive ==
    /\ pc = "recv"
    /\ \E resp \in LoopResponses :
         /\ responses' = Append(responses, resp)
         /\ results' = compare_iteration(results, call.country_codes[idx],
                                         call.indicator, call.year, resp)
    /\ idx' = next_position(idx, call.country_codes, results')
    /\ pc' = "send"
    /\ UNCHANGED <<datafile, call, ret, requests>>

\* the loop is exhausted: return results
CompareReturn ==
    /\ pc = "send"
    /\ idx > Len(call.country_codes)
    /\ ret' = Ret(results)
    /\ pc' = "idle"
    /\ UNCHANGED <<datafile, call, requests, responses, results, idx>>

\* resource data://countries
GetCountries ==
    /\ pc = "idle"
    /\ call' = [op |-> "get_countries"]
    /\ ret' \in get_countries(datafile)
    /\ requests' = <<>>
    /\ responses' = <<>>
    /\ results' = <<>>
    /\ idx' = 0
    /\ UNCHANGED <<datafile, pc>>

\* resource data://indicators/{country_code}
GetCountryIndicators ==
    /\ pc = "idle"
    /\ \E country_code \in LookupCodes :
         /\ call' = [op |-> "get_country_indicators", country_code |-> country_code]
         /\ ret' = get_country_indicators(datafile, country_code)
    /\ requests' = <<>>
    /\ responses' = <<>>
    /\ results' = <<>>
    /\ idx' = 0
    /\ UNCHANGED <<datafile, pc>>

InitCall ==
    /\ pc = "idle"
    /\ call = NoCall
    /\ ret = NoReturn
    /\ requests = <<>>
    /\ responses = <<>>
    /\ results = <<>>
    /\ idx = 0

\* the resources, over every content of the data file
InitResources == datafile \in DataFiles /\ InitCall
NextResources == GetCountries \/ GetCountryIndicators
SpecResources == InitResources /\ [][NextResources]_vars

\* the tools; they never read the data file
InitTools == datafile = [exists |-> FALSE, rows |-> <<>>] /\ InitCall
NextTools ==
    \/ GetCountryInfo
    \/ GetLiveIndicator
    \/ CompareCountries
    \/ LoopSend
    \/ LoopReceive
    \/ CompareReturn
SpecTools == InitTools /\ [][NextTools]_vars

----------------------------------------------------------------------------
(* Properties of the resources (SpecResources) *)

Occurrences(seq, x) == Cardinality({i \in 1..Len(seq) : seq[i] = x})
HasRowFor(code) ==
    \E i \in 1..Len(datafile.rows) : datafile.rows[i].countryiso3code = code

\* C5: when the data file holds at least one row whose countryiso3code
\* equals the code asked for, get_country_indicators returns exactly the
\* rows with that code: every returned row carries the code asked for
\* (compared case-sensitively), is a row of the data file, and every row
\* of the file with that code is returned as often as it occurs.
C5_FilterReturnsExactlyMatchingRows ==
    (call.op = "get_country_indicators" /\ datafile.exists
        /\ HasRowFor(call.country_code)) =>
      /\ ~ret.raised
      /\ ret.val.t = "list"
      /\ \A i \in 1..Len(ret.val.v) :
           /\ ret.val.v[i].countryiso3code = call.country_code
           /\ \E k \in 1..Len(datafile.rows) : datafile.rows[k] = ret.val.v[i]
      /\ \A k \in 1..Len(datafile.rows) :
           datafile.rows[k].countryiso3code = call.country_code =>
             Occurrences(ret.val.v, datafile.rows[k])
                 = Occurrences(datafile.rows, datafile.rows[k])

\* a lookup of "USA" in a file that also holds a "usa" row
C5_Witness ==
    /\ call.op = "get_country_indicators"
    /\ call.country_code = "USA"
    /\ datafile.exists
    /\ HasRowFor("USA")
    /\ HasRowFor("usa")
    /\ ~ret.raised
    /\ ret.val.t = "list"
    /\ Len(ret.val.v) = 2

\* C6: with the data file present, get_country_indicators returns the
\* object {"error": "Country not found: <code>"} (the code verbatim) if and
\* only if no row has that code, and never raises.
C6_NotFoundIffNoRowMatches ==
    (call.op = "get_country_indicators" /\ datafile.exists) =>
      /\ ~ret.raised
      /\ (ret.val.t = "obj") <=> ~HasRowFor(call.country_code)
      /\ ret.val.t = "obj" =>
           ret.val.v = [error |-> "Country not found: " \o call.country_code]

\* a lookup of "usa" in a file that holds "USA" rows but no "usa" row
C6_Witness ==
    /\ call.op = "get_country_indicators"
    /\ call.country_code = "usa"
    /\ datafile.exists
    /\ HasRowFor("USA")
    /\ ~HasRowFor("usa")
    /\ ret = Ret(json_dumps([error |-> "Country not found: usa"]))

\* C7: with the data file present, get_countries returns, for a non-empty
\* dataset, the distinct (countryiso3code, country) pairs of the dataset,
\* each once, none missing, in ascending order of code; for an empty
\* dataset it returns the object {"error": "No countries found"}.
C7_CountriesDistinctAndSorted ==
    (call.op = "get_countries" /\ datafile.exists) =>
      /\ ~ret.raised
      /\ IF datafile.rows = <<>>
         THEN /\ ret.val.t = "obj"
              /\ ret.val.v = [error |-> "No countries found"]
         ELSE /\ ret.val.t = "list"
              /\ LET out == ret.val.v
                     pairs == {<<datafile.rows[k].countryiso3code,
                                 datafile.rows[k].country>> :
                                   k \in 1..Len(datafile.rows)}
                 IN /\ {<<out[i].countryiso3code, out[i].country>> :
                            i \in 1..Len(out)} = pairs
                    /\ Len(out) = Cardinality(pairs)
                    /\ \A i \in 1..Len(out) : DOMAIN out[i] = {"countryiso3code", "country"}
                    /\ \A i, j \in 1..Len(out) :
                         i < j => CodeRank(out[i].countryiso3code)
                                    <= CodeRank(out[j].countryiso3code)

\* a file whose rows are out of order and repeat a (code, name) pair
C7_Witness ==
    /\ call.op = "get_countries"
    /\ datafile.exists
    /\ Len(datafile.rows) = 3
    /\ datafile.rows[1].countryiso3code = "usa"
    /\ datafile.rows[2].countryiso3code = "BRA"
    /\ datafile.rows[3] = datafile.rows[1]
    /\ ~ret.raised
    /\ ret.val.t = "list"
    /\ Len(ret.val.v) = 2

----------------------------------------------------------------------------
(* Properties of the tools (SpecTools) *)

Is2xx(resp) == resp.kind = "http" /\ resp.status >= 200 /\ resp.status <= 299
IsNon2xx(resp) == resp.kind = "http" /\ ~(resp.status >= 200 /\ resp.status <= 299)

\* the record compare_countries stores when the invocation for a code raises
ErrorRecord(code, message) ==
    [country |-> code, indicator |-> call.indicator, year |-> call.year,
     value |-> Null, error |-> message]

\* C1: a completed compare_countries call returns a list as long as
\* country_codes, and element i is what the invocation for country_codes[i]
\* produced from the answer given to the i-th GET: no entry is dropped,
\* merged or moved, whatever the outcomes; an empty list yields an empty list.
C1_OutputMatchesInputPositions ==
    (pc = "idle" /\ call.op = "compare_countries") =>
      /\ ~ret.raised
      /\ Len(ret.val) = Len(call.country_codes)
      /\ Len(responses) = Len(call.country_codes)
      /\ \A i \in 1..Len(call.country_codes) :
           LET o == get_live_indicator(call.country_codes[i], call.indicator,
                                       call.year, responses[i])
           IN ret.val[i] = IF o.raised
                           THEN ErrorRecord(call.country_codes[i], o.msg)
                           ELSE o.val

\* a completed call over a list that repeats a code, whose two occurrences
\* were answered differently
C1_Witness ==
    /\ pc = "idle"
    /\ call.op = "compare_countries"
    /\ call.country_codes = <<"USA", "ZZZ", "USA">>
    /\ Len(ret.val) = 3
    /\ responses[1] = Http(200, BodyData)
    /\ IsNon2xx(responses[2])
    /\ responses[3] = Http(200, BodyNoArray)
    /\ ret.val[1] # ret.val[3]

\* C2: at every point of a compare_countries call, each pass made so far
\* has filled exactly its own slot: a slot whose invocation raised holds the
\* error record {country, indicator, year, value: null, error: message}, a
\* slot whose invocation returned (an error object included) holds the
\* returned object, whatever happened in the other passes; after a failing
\* pass the loop stands at the next position, and a completed call has
\* filled every slot.
C2_FailureStaysInItsSlot ==
    call.op = "compare_countries" =>
      /\ Len(results) = Len(responses)
      /\ pc # "idle" => idx = Len(responses) + 1
      /\ pc = "idle" => Len(results) = Len(call.country_codes)
      /\ \A j \in 1..Len(responses) :
           LET o == get_live_indicator(call.country_codes[j], call.indicator,
                                       call.year, responses[j])
           IN /\ o.raised =>
                   /\ DOMAIN results[j]
                        = {"country", "indicator", "year", "value", "error"}
                   /\ results[j].country = call.country_codes[j]
                   /\ results[j].indicator = call.indicator
                   /\ results[j].year = call.year
                   /\ results[j].value = Null
                   /\ results[j].error = o.msg
              /\ IsNon2xx(responses[j]) =>
                   results[j] = [error |-> "Invalid request for "
                                   \o call.country_codes[j] \o " / "
                                   \o call.indicator]
              /\ ~o.raised => results[j] = o.val

\* a completed call whose first invocation raised, whose second got a
\* non-2xx answer and whose third succeeded
C2_Witness ==
    /\ pc = "idle"
    /\ call.op = "compare_countries"
    /\ Len(call.country_codes) = 3
    /\ get_live_indicator(call.country_codes[1], call.indicator, call.year,
                          responses[1]).raised
    /\ IsNon2xx(responses[2])
    /\ responses[3] = Http(200, BodyData)
    /\ "error" \in DOMAIN ret.val[1]
    /\ "country_name" \in DOMAIN ret.val[3]

\* C8: a get_live_indicator call answered with a non-2xx status returns
\* exactly {"error": "Invalid request for <code> / <indicator>"}; one whose
\* upstream call failed otherwise (transport failure, body that is not
\* JSON) returns an object with the single key error, carrying the
\* exception's message; neither raises.
C8_UpstreamFailureBecomesErrorObject ==
    (pc = "idle" /\ call.op = "get_live_indicator") =>
      LET resp == responses[1] IN
      /\ IsNon2xx(resp) =>
           ret = Ret([error |-> "Invalid request for " \o call.country_code
                                  \o " / " \o call.indicator])
      /\ resp.kind = "transport" => ret = Ret([error |-> resp.msg])
      /\ (Is2xx(resp) /\ resp.body = NotJson) =>
           /\ ~ret.raised
           /\ DOMAIN ret.val = {"error"}

\* a call for ZZZ answered 404
C8_Witness ==
    /\ pc = "idle"
    /\ call.op = "get_live_indicator"
    /\ call.country_code = "ZZZ"
    /\ responses[1] = Http(404, ErrorMessage)
    /\ ret = Ret([error |-> "Invalid request for ZZZ / SP.POP.TOTL"])

\* C9: during a compare_countries call the k-th GET is the one for
\* country_codes[k]; a GET is issued only when every earlier one has been
\* answered (at most one is outstanding, and only while the loop waits);
\* never more GETs than list positions are issued, and a completed call has
\* issued exactly one per position whatever the outcomes.
C9_OneGetPerPositionInOrder ==
    call.op = "compare_countries" =>
      /\ Len(requests) <= Len(call.country_codes)
      /\ \A k \in 1..Len(requests) :
           requests[k].url = "https://api.worldbank.org/v2/country/"
                               \o call.country_codes[k] \o "/indicator/"
                               \o call.indicator
      /\ Len(requests) = Len(responses) + (IF pc = "recv" THEN 1 ELSE 0)
      /\ pc = "recv" => Len(requests) = idx
      /\ pc = "idle" =>
           /\ Len(requests) = Len(call.country_codes)
           /\ Len(responses) = Len(call.country_codes)

\* a completed call over three codes whose first GET timed out and whose
\* second was answered 404
C9_Witness ==
    /\ pc = "idle"
    /\ call.op = "compare_countries"
    /\ Len(call.country_codes) = 3
    /\ Len(requests) = 3
    /\ responses[1] = Transport("timed out")
    /\ IsNon2xx(responses[2])

----------------------------------------------------------------------------
(* Statements the code does not satisfy *)

\* the data array of a [metadata, dataArray] body is absent, null, empty
\* or not a list of objects
DataArrayUnusable(body) ==
    /\ body.t = "list"
    /\ \/ Len(body.v) < 2
       \/ body.v[2].t # "list"
       \/ \E i \in 1..Len(body.v[2].v) : body.v[2].v[i].t # "obj"
       \/ Len(body.v[2].v) = 0

\* C3: for every 2xx answer whose data array is absent, empty, null or
\* malformed, get_live_indicator returns (never raises) an object echoing
\* country, indicator and year, with value null and the error
\* "No data available".
C3_UnusableDataArrayIsSoftFailure ==
    (pc = "idle" /\ call.op = "get_live_indicator" /\ Is2xx(responses[1])
        /\ responses[1].body # NotJson
        /\ DataArrayUnusable(responses[1].body)) =>
      /\ ~ret.raised
      /\ ret.val = [country |-> call.country_code,
                    indicator |-> call.indicator,
                    year |-> call.year,
                    value |-> Null,
                    error |-> "No data available"]

CountryInfoKeys ==
    {"name", "capital", "region", "subregion", "languages", "currencies",
     "population", "flag"}

\* the first candidate of the body is an object without a capital entry or
\* with an empty capital list
CapitalMissing(first) ==
    /\ first.t = "obj"
    /\ \A i \in 1..Len(first.v) :
         first.v[i].k = "capital" =>
           first.v[i].v.t = "list" /\ Len(first.v[i].v.v) = 0

\* C4: for every 2xx answer of the country-metadata API that holds a first
\* candidate, get_country_info returns (never raises) an object with all
\* eight keys, and capital is null when the candidate's capital list is
\* absent or empty.
C4_CountryInfoAlwaysReturnsAllKeys ==
    (pc = "idle" /\ call.op = "get_country_info" /\ Is2xx(responses[1])
        /\ responses[1].body.t = "list" /\ Len(responses[1].body.v) > 0) =>
      /\ ~ret.raised
      /\ DOMAIN ret.val = CountryInfoKeys
      /\ CapitalMissing(responses[1].body.v[1]) => ret.val.capital = Null

\* C10: every indicator GET carries format=json and per_page=100, and a
\* date parameter equal to the year whenever a year is passed (0 included),
\* so the year echoed in a result is the year the query was filtered on.
C10_DateFilterFollowsYear ==
    call.op \in {"get_live_indicator", "compare_countries"} =>
      \A k \in 1..Len(requests) :
        /\ requests[k].params.format = "json"
        /\ requests[k].params.per_page = 100
        /\ call.year.t = "num" =>
             /\ "date" \in DOMAIN requests[k].params
             /\ requests[k].params.date = ToString(call.year.v)
        /\ call.year.t = "null" => "date" \notin DOMAIN requests[k].params

====
